---- MODULE Spec2Model ----
(***************************************************************************)
(* Model of otv_flight_dynamics.py: the transfer-cost kernel (Hohmann,     *)
(* bi-elliptic, plane change), the transfer selector, the LTAN drift       *)
(* solver, the vehicle sizing and the top-level script that accumulates    *)
(* the delta-v budget.                                                     *)
(*                                                                         *)
(* Python floats are modelled in fixed point on 32-bit integers:           *)
(*   radius, altitude      km                                              *)
(*   speed, delta-v        m/s        (1e-3 km/s)                          *)
(*   angle                 1e-4 rad,  1e-4 deg                             *)
(*   sin, cos, exp         1e-4                                            *)
(*   drift rate            1e-4 deg/day, 1e-12 rad/s                       *)
(*   mass                  g          (1e-3 kg)                            *)
(*   fraction              1e-6                                            *)
(*   force                 N                                               *)
(* Every quotient is rounded towards zero.                                 *)
(***************************************************************************)
EXTENDS Integers, Sequences, FiniteSets, TLC

(***************************************************************************)
(* Fixed-point arithmetic                                                  *)
(***************************************************************************)
MaxInt == (2^30 - 1) * 2 + 1

TS == 10^4

Abs(x) == IF x < 0 THEN -x ELSE x

Sgn(x) == IF x < 0 THEN -1 ELSE IF x > 0 THEN 1 ELSE 0

RECURSIVE MulDivQR(_, _, _)
\* <<q, r>> with a*b = q*c + r and 0 <= r < c, for a, b >= 0 and c > 0,
\* without an intermediate value beyond 32 bits
MulDivQR(a, b, c) ==
    IF b = 0 THEN <<0, 0>>
    ELSE IF a <= MaxInt \div b THEN <<(a * b) \div c, (a * b) % c>>
    ELSE LET p  == MulDivQR(a, b \div 2, c)
             q2 == 2 * p[1] + (IF b % 2 = 1 THEN a \div c ELSE 0)
             r2 == 2 * p[2] + (IF b % 2 = 1 THEN a % c ELSE 0)
         IN  <<q2 + (r2 \div c), r2 % c>>

\* a*b/c rounded towards zero, any signs; c # 0
MulDiv(a, b, c) ==
    Sgn(a) * Sgn(b) * Sgn(c) * MulDivQR(Abs(a), Abs(b), Abs(c))[1]

RECURSIVE SqrtSearch(_, _, _)
SqrtSearch(n, lo, hi) ==
    IF lo >= hi THEN lo
    ELSE LET mid == (lo + hi + 1) \div 2
         IN  IF mid * mid <= n THEN SqrtSearch(n, mid, hi)
             ELSE SqrtSearch(n, lo, mid - 1)

\* math.sqrt on a non-negative fixed-point value: floor of the root
Sqrt(n) == SqrtSearch(n, 0, 46340)

Pi == 31416

RECURSIVE SinSeries(_, _, _, _)
SinSeries(x2, term, k, acc) ==
    IF term = 0 THEN acc
    ELSE LET t == -((Abs(term) * x2) \div (TS * (2 * k) * (2 * k + 1))) * Sgn(term)
         IN  SinSeries(x2, t, k + 1, acc + t)

\* sine of an angle 0 <= x <= Pi/2
SinQ(x) == SinSeries((x * x) \div TS, x, 1, x)

\* math.sin: angle in 1e-4 rad, result in 1e-4
Sin(x) ==
    LET y == Abs(x) % (2 * Pi)
        z == IF y > Pi THEN y - Pi ELSE y
        w == IF 2 * z > Pi THEN Pi - z ELSE z
    IN  Sgn(x) * (IF y > Pi THEN -1 ELSE 1) * SinQ(w)

RECURSIVE CosSeries(_, _, _, _)
CosSeries(x2, term, k, acc) ==
    IF term = 0 THEN acc
    ELSE LET t == -((Abs(term) * x2) \div (TS * (2 * k - 1) * (2 * k))) * Sgn(term)
         IN  CosSeries(x2, t, k + 1, acc + t)

\* cosine of an angle 0 <= x <= Pi
Cos(x) ==
    IF 2 * x > Pi THEN -CosSeries(((Pi - x) * (Pi - x)) \div TS, TS, 1, TS)
    ELSE CosSeries((x * x) \div TS, TS, 1, TS)

RECURSIVE AcosLow(_, _, _)
\* least angle in lo..hi whose cosine is at most c
AcosLow(c, lo, hi) ==
    IF lo >= hi THEN lo
    ELSE LET mid == (lo + hi) \div 2
         IN  IF Cos(mid) <= c THEN AcosLow(c, lo, mid)
             ELSE AcosLow(c, mid + 1, hi)

RECURSIVE AcosHigh(_, _, _)
\* greatest angle in lo..hi whose cosine is at least c
AcosHigh(c, lo, hi) ==
    IF lo >= hi THEN lo
    ELSE LET mid == (lo + hi + 1) \div 2
         IN  IF Cos(mid) >= c THEN AcosHigh(c, mid, hi)
             ELSE AcosHigh(c, lo, mid - 1)

\* math.acos for -1 <= c <= 1 (1e-4): angle in [0, Pi], 1e-4 rad
Acos(c) == IF c >= 0 THEN AcosLow(c, 0, Pi) ELSE AcosHigh(c, 0, Pi)

\* math.radians: 1e-4 deg to 1e-4 rad
Radians(d) == MulDiv(d, Pi, 180 * TS)

\* math.degrees: 1e-4 rad to 1e-4 deg
Degrees(x) == MulDiv(x, 180 * TS, Pi)

RECURSIVE ExpSeries(_, _, _, _)
ExpSeries(x, term, k, acc) ==
    IF term = 0 THEN acc
    ELSE LET t == MulDiv(term, x, TS * k)
         IN  ExpSeries(x, t, k + 1, acc + t)

\* math.exp: argument and result in 1e-4
Exp(x) ==
    IF x >= 0 THEN ExpSeries(x, TS, 1, TS)
    ELSE MulDiv(TS, TS, ExpSeries(-x, TS, 1, TS))

(***************************************************************************)
(* Constants of the program                                                *)
(***************************************************************************)
\* 398600.4418 km^3/s^2, in 1e-3 km^3/s^2
MU_EARTH == 398600442

R_EARTH == 6371

(***************************************************************************)
(* OrbitalMechanicsKernel                                                  *)
(***************************************************************************)
\* sqrt(MU_EARTH / radius), m/s
orbital_velocity(radius) == Sqrt(MulDiv(MU_EARTH, 1000, radius))

\* sqrt(2 * MU_EARTH * far / (near * (near + far))), m/s: the speed on the
\* transfer ellipse between radii near and far, at radius near
transfer_velocity(near, far) ==
    Sqrt(MulDiv(MulDiv(2 * MU_EARTH, far, near + far), 1000, near))

\* hohmann_delta_v with the first burn signed instead of its magnitude
hohmann_delta_v_signed(r1, r2) ==
    LET v1 == orbital_velocity(r1)
        v2 == orbital_velocity(r2)
        v_transfer1 == transfer_velocity(r1, r2)
        v_transfer2 == transfer_velocity(r2, r1)
        delta_v1 == v_transfer1 - v1
        delta_v2 == Abs(v2 - v_transfer2)
    IN  delta_v1 + delta_v2

hohmann_delta_v(r1, r2) ==
    LET v1 == orbital_velocity(r1)
        v2 == orbital_velocity(r2)
        v_transfer1 == transfer_velocity(r1, r2)
        v_transfer2 == transfer_velocity(r2, r1)
        delta_v1 == Abs(v_transfer1 - v1)
        delta_v2 == Abs(v2 - v_transfer2)
    IN  delta_v1 + delta_v2

\* bielliptic_delta_v that sums the burn at r_b only
bielliptic_delta_v_apoapsis_only(r1, r2, r_b) ==
    LET v_b1 == transfer_velocity(r_b, r1)
        v_b2 == transfer_velocity(r_b, r2)
    IN  Abs(v_b2 - v_b1)

bielliptic_delta_v(r1, r2, r_b) ==
    LET v1 == orbital_velocity(r1)
        v_transfer1 == transfer_velocity(r1, r_b)
        delta_v1 == Abs(v_transfer1 - v1)
        v_b1 == transfer_velocity(r_b, r1)
        v_b2 == transfer_velocity(r_b, r2)
        delta_v2 == Abs(v_b2 - v_b1)
        v2 == orbital_velocity(r2)
        v_transfer2 == transfer_velocity(r2, r_b)
        delta_v3 == Abs(v2 - v_transfer2)
    IN  delta_v1 + delta_v2 + delta_v3

\* 2 * v * sin(radians(delta_inclination_deg) / 2), m/s
inclination_change_delta_v(altitude_km, delta_inclination_deg) ==
    LET r == R_EARTH + altitude_km
        v == orbital_velocity(r)
        delta_i_rad == Radians(delta_inclination_deg)
    IN  MulDiv(2 * v, Sin(MulDiv(delta_i_rad, 1, 2)), TS)

(***************************************************************************)
(* State                                                                   *)
(***************************************************************************)
VARIABLES
    pc,               \* position of the script / of the function being run
    h1, h2,           \* st.number_input values, lines 200-201
    h_incl, inc,      \* lines 213-214
    h_ltan, ltan_i, ltan_f, ltan_dur,   \* lines 225-228
    delta_v_budget,   \* line 203
    budget_log,       \* the updates of delta_v_budget: <<stage, before, after>>
    budget_reads,     \* the stages after which otv_sizing read the budget
    result,           \* line 205: <<>> until assigned, then <<TransferPlan>>
    dv_inc,           \* line 216
    ltan_result,      \* line 230: `result` rebound; None is <<>>
    config,           \* line 250: <<>> until assigned
    ct,               \* frame of choose_transfer
    swapped,          \* hohmann_delta_v(r2, r1) of the same pair, <<>> until applied
    lt,               \* frame of ltan_drift_adjustment
    sz                \* arguments of otv_sizing

inputs == <<h1, h2, h_incl, inc, h_ltan, ltan_i, ltan_f, ltan_dur>>
script == <<delta_v_budget, budget_log, budget_reads, dv_inc, config>>
vars == <<pc, inputs, script, result, ltan_result, ct, swapped, lt, sz>>

None == <<>>

\* float('inf'), lines 45 and 99
Inf == MaxInt

(***************************************************************************)
(* TransferStrategySelector: choose_transfer                               *)
(***************************************************************************)
Max(a, b) == IF a >= b THEN a ELSE b

multipliers == <<2, 5, 10>>

\* line 49
BetterBielliptic(dv_bielliptic, best_bielliptic_dv) ==
    dv_bielliptic < best_bielliptic_dv

\* line 52 with the comparison reversed
BiellipticWinsReversed(best_bielliptic_dv, dv_hohmann) ==
    best_bielliptic_dv > dv_hohmann

\* line 52
BiellipticWins(best_bielliptic_dv, dv_hohmann) ==
    best_bielliptic_dv < dv_hohmann

ChooseTransferFrame(a, b) ==
    [initial_altitude_km |-> a, final_altitude_km |-> b,
     r1 |-> 0, r2 |-> 0, dv_hohmann |-> 0,
     best_bielliptic_dv |-> Inf, k |-> 1, costs |-> <<>>]

\* lines 38-45
ChooseTransferEnter ==
    /\ pc = "choose_transfer"
    /\ LET r1 == R_EARTH + ct.initial_altitude_km
           r2 == R_EARTH + ct.final_altitude_km
       IN  ct' = [ct EXCEPT !.r1 = r1, !.r2 = r2,
                            !.dv_hohmann = hohmann_delta_v(r1, r2),
                            !.best_bielliptic_dv = Inf, !.k = 1]
    /\ pc' = "ct_loop"
    /\ UNCHANGED <<inputs, script, result, ltan_result, swapped, lt, sz>>

\* lines 46-50, one iteration
ChooseTransferIter ==
    /\ pc = "ct_loop"
    /\ ct.k <= Len(multipliers)
    /\ LET multiplier == multipliers[ct.k]
           r_b == multiplier * Max(ct.r1, ct.r2)
           dv_bielliptic == bielliptic_delta_v(ct.r1, ct.r2, r_b)
       IN  ct' = [ct EXCEPT
                    !.best_bielliptic_dv =
                        IF BetterBielliptic(dv_bielliptic, @)
                        THEN dv_bielliptic ELSE @,
                    !.k = @ + 1,
                    !.costs = Append(@, [multiplier |-> multiplier,
                                         r_b |-> r_b,
                                         dv |-> dv_bielliptic])]
    /\ UNCHANGED <<pc, inputs, script, result, ltan_result, swapped, lt, sz>>

\* lines 52-61
ChooseTransferReturn ==
    /\ pc = "ct_loop"
    /\ ct.k > Len(multipliers)
    /\ result' = IF BiellipticWins(ct.best_bielliptic_dv, ct.dv_hohmann)
                 THEN <<[method |-> "bi-elliptic",
                         delta_v_kms |-> ct.best_bielliptic_dv]>>
                 ELSE <<[method |-> "hohmann",
                         delta_v_kms |-> ct.dv_hohmann]>>
    /\ pc' = "L206"
    /\ UNCHANGED <<inputs, script, ltan_result, ct, swapped, lt, sz>>

\* hohmann_delta_v applied to the same pair of radii in the other order
HohmannSwapped ==
    /\ pc \in {"ct_loop", "L206"}
    /\ swapped = <<>>
    /\ swapped' = <<hohmann_delta_v(ct.r2, ct.r1)>>
    /\ UNCHANGED <<pc, inputs, script, result, ltan_result, ct, lt, sz>>

(***************************************************************************)
(* LTANDriftSolver: ltan_drift_adjustment                                  *)
(***************************************************************************)
\* 1.08263e-3, in 1e-8
J2 == 108263

GridStart == 400

GridStop == 900

GridStep == 5

\* math.radians(98.6), the typical SSO inclination, 1e-4 rad
SSO_INCLINATION == Radians(986000)

\* line 94 with a remainder that truncates towards zero
normalize_ltan_truncating(delta_ltan_deg) ==
    (Sgn(delta_ltan_deg + 180) * (Abs(delta_ltan_deg + 180) % 360)) - 180

\* line 94
normalize_ltan(delta_ltan_deg) == ((delta_ltan_deg + 180) % 360) - 180

\* line 104: sqrt(mu / a**3), 1e-7 rad/s
mean_motion(a) ==
    Sqrt(MulDiv(MulDiv(MulDiv(MU_EARTH, 1000, a), TS, a), TS, a))

\* line 105: -1.5 * J2 * R**2 * n / a**2, 1e-12 rad/s
drift_factor(a) ==
    -MulDiv(MulDiv(15 * J2, R_EARTH * R_EARTH, 10^6), mean_motion(a) * 100, a * a)

\* line 108: math.radians(required_drift_rate) / 86400, 1e-12 rad/s
drift_rate_rad_per_sec(required_drift_rate) ==
    MulDiv(MulDiv(required_drift_rate, Pi, 180), TS, 86400)

\* line 109, 1e-4
cos_inclination(required_drift_rate, h) ==
    MulDiv(drift_rate_rad_per_sec(required_drift_rate), TS,
           drift_factor(R_EARTH + h))

\* line 111
Feasible(cos_i) == Abs(cos_i) <= TS

\* lines 116-127
total_dv(initial_altitude_km, h, i_rad) ==
    LET current_r == R_EARTH + initial_altitude_km
        new_r == R_EARTH + h
        delta_i_rad == Abs(i_rad - SSO_INCLINATION)
    IN  hohmann_delta_v(current_r, new_r)
          + inclination_change_delta_v(h, Degrees(delta_i_rad))

\* line 129 keeping the first feasible candidate
ImprovesFirstOnly(dv, min_dv) == min_dv = Inf

\* line 129
Improves(dv, min_dv) == dv < min_dv

\* line 102 with the scan ended at the first infeasible altitude
NextAltitudeBreak(h, feasible) == IF feasible THEN h + GridStep ELSE GridStop

\* line 102: the altitude the scan goes to after h
NextAltitude(h, feasible) == h + GridStep

LtanFrame(i, f, a, d) ==
    [initial_ltan_hours |-> i, target_ltan_hours |-> f,
     initial_altitude_km |-> a, duration_days |-> d,
     delta_ltan_deg |-> 0, required_drift_rate |-> 0,
     h |-> GridStart, best_solution |-> None, min_dv |-> Inf,
     evaluated |-> <<>>]

\* lines 92-96 with a division that saturates instead of raising
LtanDivideByZeroSaturates ==
    /\ pc = "ltan_drift_adjustment"
    /\ lt.duration_days = 0
    /\ LET delta_ltan_deg ==
               normalize_ltan((lt.target_ltan_hours - lt.initial_ltan_hours) * 15)
       IN  lt' = [lt EXCEPT !.delta_ltan_deg = delta_ltan_deg,
                           !.required_drift_rate = Sgn(delta_ltan_deg) * 10^6]
    /\ pc' = "ltan_loop"
    /\ UNCHANGED <<inputs, script, result, ltan_result, ct, swapped, sz>>

\* lines 92-96 with duration_days = 0: the division raises
LtanDivideByZero ==
    /\ pc = "ltan_drift_adjustment"
    /\ lt.duration_days = 0
    /\ lt' = [lt EXCEPT !.delta_ltan_deg =
                 normalize_ltan((lt.target_ltan_hours - lt.initial_ltan_hours) * 15)]
    /\ pc' = "ZeroDivisionError"
    /\ UNCHANGED <<inputs, script, result, ltan_result, ct, swapped, sz>>

\* lines 92-99
LtanEnter ==
    /\ pc = "ltan_drift_adjustment"
    /\ lt.duration_days # 0
    /\ LET delta_ltan_deg ==
               normalize_ltan((lt.target_ltan_hours - lt.initial_ltan_hours) * 15)
       IN  lt' = [lt EXCEPT
                    !.delta_ltan_deg = delta_ltan_deg,
                    !.required_drift_rate =
                        MulDiv(delta_ltan_deg, TS, lt.duration_days),
                    !.h = GridStart, !.best_solution = None, !.min_dv = Inf]
    /\ pc' = "ltan_loop"
    /\ UNCHANGED <<inputs, script, result, ltan_result, ct, swapped, sz>>

\* lines 103-127: what the loop body computes for altitude h
Candidate(required_drift_rate, initial_altitude_km, h) ==
    LET cos_i == cos_inclination(required_drift_rate, h)
    IN  IF Feasible(cos_i)
        THEN LET i_rad == Acos(cos_i)
             IN  [h |-> h, cos_i |-> cos_i, feasible |-> TRUE,
                  i_deg |-> Degrees(i_rad),
                  total_dv |-> total_dv(initial_altitude_km, h, i_rad)]
        ELSE [h |-> h, cos_i |-> cos_i, feasible |-> FALSE,
              i_deg |-> 0, total_dv |-> 0]

\* lines 102-137, one altitude of the grid
LtanIter ==
    /\ pc = "ltan_loop"
    /\ lt.h < GridStop
    /\ \E c \in {Candidate(lt.required_drift_rate, lt.initial_altitude_km, lt.h)} :
         \E better \in {c.feasible /\ Improves(c.total_dv, lt.min_dv)} :
           lt' = [lt EXCEPT
               !.min_dv = IF better THEN c.total_dv ELSE @,
               !.best_solution =
                   IF better
                   THEN <<[new_altitude_km |-> c.h,
                           new_inclination_deg |-> c.i_deg,
                           total_delta_v_kms |-> c.total_dv,
                           required_drift_deg_per_day |-> lt.required_drift_rate,
                           duration_days |-> lt.duration_days]>>
                   ELSE @,
               !.evaluated = Append(@, c),
               !.h = NextAltitude(c.h, c.feasible)]
    /\ UNCHANGED <<pc, inputs, script, result, ltan_result, ct, swapped, sz>>

\* line 139
LtanReturn ==
    /\ pc = "ltan_loop"
    /\ lt.h >= GridStop
    /\ ltan_result' = lt.best_solution
    /\ pc' = "L237"
    /\ UNCHANGED <<inputs, script, result, ct, swapped, lt, sz>>

(***************************************************************************)
(* VehicleSizingEngine: otv_sizing                                         *)
(***************************************************************************)
\* 9.80665 m/s^2, in 1e-5
g0 == 980665

\* line 165, g
dry_mass(payload_mass, structural_mass_fraction) ==
    MulDiv(payload_mass, 100, 100 - structural_mass_fraction)

\* lines 162 and 168, g: dry_mass * exp(delta_v / (isp_sec * g0))
initial_mass(dry, total_delta_v_kms, isp_sec) ==
    LET delta_v == total_delta_v_kms * 1000
    IN  MulDiv(dry, Exp(MulDiv(delta_v, 10^6, isp_sec * g0)), TS)

\* line 169 without the subtraction of the dry mass
propellant_mass_gross(m0, dry) == m0

\* line 169
propellant_mass(m0, dry) == m0 - dry

\* line 170
structural_mass(dry, payload_mass) == dry - payload_mass

\* lines 181-183, 1e-6
fraction(mass, m0) == MulDiv(mass, 10^6, m0)

SizingArgs(p, dv, isp, smf, twr) ==
    [payload_mass_kg |-> p, total_delta_v_kms |-> dv, isp_sec |-> isp,
     structural_mass_fraction |-> smf, thrust_to_weight_ratio |-> twr]

\* the divisions of lines 165, 168 and 181-183 raise on a zero divisor
SizingDivisorZero ==
    IF sz.structural_mass_fraction = 100 \/ sz.isp_sec = 0 THEN TRUE
    ELSE initial_mass(dry_mass(sz.payload_mass_kg * 1000,
                               sz.structural_mass_fraction),
                      sz.total_delta_v_kms, sz.isp_sec) = 0

OtvSizingRaises ==
    /\ pc = "otv_sizing"
    /\ SizingDivisorZero
    /\ pc' = "ZeroDivisionError"
    /\ UNCHANGED <<inputs, script, result, ltan_result, ct, swapped, lt, sz>>

\* lines 161-187
OtvSizing ==
    /\ pc = "otv_sizing"
    /\ ~SizingDivisorZero
    /\ LET payload == sz.payload_mass_kg * 1000
           dry == dry_mass(payload, sz.structural_mass_fraction)
           m0 == initial_mass(dry, sz.total_delta_v_kms, sz.isp_sec)
           propellant == propellant_mass(m0, dry)
           structural == structural_mass(dry, payload)
           weight == MulDiv(m0, g0, 10^8)
           thrust == MulDiv(weight, sz.thrust_to_weight_ratio, 100)
       IN  config' = <<[payload_mass_kg |-> payload,
                        structural_mass_kg |-> structural,
                        propellant_mass_kg |-> propellant,
                        total_mass_kg |-> m0,
                        payload_fraction |-> fraction(payload, m0),
                        propellant_fraction |-> fraction(propellant, m0),
                        structural_fraction |-> fraction(structural, m0),
                        thrust_N |-> thrust,
                        thrust_to_weight_ratio |-> sz.thrust_to_weight_ratio,
                        isp_sec |-> sz.isp_sec]>>
    /\ pc' = "L252"
    /\ UNCHANGED <<inputs, delta_v_budget, budget_log, budget_reads, dv_inc,
                   result, ltan_result, ct, swapped, lt, sz>>

(***************************************************************************)
(* The top-level script, lines 200-253                                     *)
(***************************************************************************)
\* delta_v_budget += amount, lines 209, 221 and 244
BudgetAdd(stage, amount) ==
    /\ delta_v_budget' = delta_v_budget + amount
    /\ budget_log' = Append(budget_log,
                            [stage |-> stage, before |-> delta_v_budget,
                             after |-> delta_v_budget + amount])

\* line 203
BudgetInit ==
    /\ pc = "L203"
    /\ delta_v_budget' = 0
    /\ pc' = "L205"
    /\ UNCHANGED <<inputs, budget_log, budget_reads, dv_inc, config,
                   result, ltan_result, ct, swapped, lt, sz>>

\* line 205, the call
CallChooseTransfer ==
    /\ pc = "L205"
    /\ ct' = ChooseTransferFrame(h1, h2)
    /\ pc' = "choose_transfer"
    /\ UNCHANGED <<inputs, script, result, ltan_result, swapped, lt, sz>>

\* lines 206-209
AddTransfer ==
    /\ pc = "L206"
    /\ BudgetAdd("altitude", result[1].delta_v_kms)
    /\ pc' = "L216"
    /\ UNCHANGED <<inputs, budget_reads, dv_inc, config,
                   result, ltan_result, ct, swapped, lt, sz>>

\* line 216
InclinationChange ==
    /\ pc = "L216"
    /\ dv_inc' = inclination_change_delta_v(h_incl, inc * TS)
    /\ pc' = "L221"
    /\ UNCHANGED <<inputs, delta_v_budget, budget_log, budget_reads, config,
                   result, ltan_result, ct, swapped, lt, sz>>

\* lines 217-221
AddInclination ==
    /\ pc = "L221"
    /\ BudgetAdd("inclination", dv_inc)
    /\ pc' = "L230"
    /\ UNCHANGED <<inputs, budget_reads, dv_inc, config,
                   result, ltan_result, ct, swapped, lt, sz>>

\* lines 230-235, the call
CallLtan ==
    /\ pc = "L230"
    /\ lt' = LtanFrame(ltan_i, ltan_f, h_ltan, ltan_dur)
    /\ pc' = "ltan_drift_adjustment"
    /\ UNCHANGED <<inputs, script, result, ltan_result, ct, swapped, sz>>

\* lines 237-242: the fields of the result are read; subscripting None
\* raises TypeError
ReadLtanResult ==
    /\ pc = "L237"
    /\ pc' = IF ltan_result = None THEN "TypeError" ELSE "L244"
    /\ UNCHANGED <<inputs, script, result, ltan_result, ct, swapped, lt, sz>>

\* line 244
AddLtan ==
    /\ pc = "L244"
    /\ BudgetAdd("ltan", ltan_result[1].total_delta_v_kms)
    /\ pc' = "L250"
    /\ UNCHANGED <<inputs, budget_reads, dv_inc, config,
                   result, ltan_result, ct, swapped, lt, sz>>

\* lines 246-250, the call: otv_sizing(payload_mass_kg=500,
\* total_delta_v_kms=delta_v_budget, isp_sec=300), defaults of lines 145-146;
\* with these arguments no divisor of otv_sizing is zero
CallOtvSizing ==
    /\ pc = "L250"
    /\ sz' = SizingArgs(500, delta_v_budget, 300, 10, 30)
    /\ budget_reads' = Append(budget_reads, budget_log)
    /\ pc' = "otv_sizing"
    /\ UNCHANGED <<inputs, delta_v_budget, budget_log, dv_inc, config,
                   result, ltan_result, ct, swapped, lt>>

(***************************************************************************)
(* Specifications                                                          *)
(***************************************************************************)
MaxLtanHour == 23

MaxInclinationSteps == 1

Unset ==
    /\ delta_v_budget = 0 /\ budget_log = <<>> /\ budget_reads = <<>>
    /\ result = <<>> /\ dv_inc = 0 /\ ltan_result = None /\ config = <<>>
    /\ swapped = <<>>

\* the script, from the values of the eight number inputs
ScriptAltitudes == {500, 600}

ScriptInclinations == {5 * k : k \in -MaxInclinationSteps..MaxInclinationSteps}

ScriptLtanHours == {0, 6, 9, 12}

ScriptDurations == {0, 10, 90}

Init ==
    /\ pc = "L203"
    /\ h1 = 500 /\ h2 \in ScriptAltitudes
    /\ h_incl = 500 /\ inc \in ScriptInclinations
    /\ h_ltan = 500 /\ ltan_i \in {0, 9} /\ ltan_f \in ScriptLtanHours
    /\ ltan_dur \in ScriptDurations
    /\ ct = ChooseTransferFrame(0, 0)
    /\ lt = LtanFrame(0, 0, 0, 0)
    /\ sz = SizingArgs(0, 0, 0, 0, 0)
    /\ Unset

Next ==
    \/ BudgetInit
    \/ CallChooseTransfer \/ ChooseTransferEnter \/ ChooseTransferIter
    \/ ChooseTransferReturn
    \/ AddTransfer \/ InclinationChange \/ AddInclination
    \/ CallLtan \/ LtanDivideByZero \/ LtanEnter \/ LtanIter \/ LtanReturn
    \/ ReadLtanResult \/ AddLtan
    \/ CallOtvSizing \/ OtvSizing

Spec == Init /\ [][Next]_vars

\* choose_transfer and hohmann_delta_v on pairs of altitudes
KernelAltitudes == {0, 400, 500, 600, 35786, 100000, 120000}

InitKernel ==
    /\ pc = "choose_transfer"
    /\ h1 \in KernelAltitudes /\ h2 \in KernelAltitudes
    /\ h_incl = 0 /\ inc = 0
    /\ h_ltan = 0 /\ ltan_i = 0 /\ ltan_f = 0 /\ ltan_dur = 0
    /\ ct = ChooseTransferFrame(h1, h2)
    /\ lt = LtanFrame(0, 0, 0, 0)
    /\ sz = SizingArgs(0, 0, 0, 0, 0)
    /\ Unset

NextKernel ==
    \/ ChooseTransferEnter \/ ChooseTransferIter \/ ChooseTransferReturn
    \/ HohmannSwapped

SpecKernel == InitKernel /\ [][NextKernel]_vars

\* ltan_drift_adjustment on its four arguments
LtanInitialHours == {0, 9, MaxLtanHour}

LtanTargetHours == 0..MaxLtanHour

LtanDurations == {0, 15, 90, -90}

InitLtan ==
    /\ pc = "ltan_drift_adjustment"
    /\ h1 = 0 /\ h2 = 0 /\ h_incl = 0 /\ inc = 0
    /\ h_ltan = 500
    /\ ltan_i \in LtanInitialHours /\ ltan_f \in LtanTargetHours
    /\ ltan_dur \in LtanDurations
    /\ ct = ChooseTransferFrame(0, 0)
    /\ lt = LtanFrame(ltan_i, ltan_f, h_ltan, ltan_dur)
    /\ sz = SizingArgs(0, 0, 0, 0, 0)
    /\ Unset

NextLtan == LtanDivideByZero \/ LtanEnter \/ LtanIter \/ LtanReturn

SpecLtan == InitLtan /\ [][NextLtan]_vars

\* otv_sizing on its five arguments
SizingPayloads == {0, 100, 500, 2000}

SizingDeltaVs == {-1000, 0, 1000, 4000, 9000}

SizingIsps == {0, 300, 320, 450}

SizingStructuralFractions == {0, 10, 50, 90, 100, 150}

InitSizing ==
    /\ pc = "otv_sizing"
    /\ h1 = 0 /\ h2 = 0 /\ h_incl = 0 /\ inc = 0
    /\ h_ltan = 0 /\ ltan_i = 0 /\ ltan_f = 0 /\ ltan_dur = 0
    /\ ct = ChooseTransferFrame(0, 0)
    /\ lt = LtanFrame(0, 0, 0, 0)
    /\ sz \in {SizingArgs(p, dv, isp, smf, 30) :
                  p \in SizingPayloads, dv \in SizingDeltaVs,
                  isp \in SizingIsps, smf \in SizingStructuralFractions}
    /\ Unset

NextSizing == OtvSizingRaises \/ OtvSizing

SpecSizing == InitSizing /\ [][NextSizing]_vars

(***************************************************************************)
(* Properties                                                              *)
(***************************************************************************)
GridAltitudes ==
    [k \in 1..((GridStop - GridStart + GridStep - 1) \div GridStep) |->
        GridStart + GridStep * (k - 1)]

EvaluatedAltitudes == [k \in DOMAIN lt.evaluated |-> lt.evaluated[k].h]

FeasibleEvaluated == {k \in DOMAIN lt.evaluated : lt.evaluated[k].feasible}

MinOf(S) == CHOOSE m \in S : \A n \in S : m <= n

BiellipticCosts == {ct.costs[k].dv : k \in DOMAIN ct.costs}

\* C1: when ltan_drift_adjustment returns for a non-zero duration it has
\* evaluated every altitude 400, 405, ..., 895 of the grid, and a returned
\* solution is a feasible candidate of the scan whose cost is at most the
\* cost of every feasible candidate.
C1_GlobalMinimum ==
    (pc = "L237" /\ lt.duration_days # 0) =>
        /\ EvaluatedAltitudes = GridAltitudes
        /\ ltan_result # None =>
              /\ \E k \in FeasibleEvaluated :
                    /\ lt.evaluated[k].h = ltan_result[1].new_altitude_km
                    /\ lt.evaluated[k].total_dv = ltan_result[1].total_delta_v_kms
                    /\ Abs(lt.evaluated[k].cos_i) <= TS
              /\ \A k \in FeasibleEvaluated :
                    ltan_result[1].total_delta_v_kms <= lt.evaluated[k].total_dv

\* a returned solution that is cheaper than a feasible candidate met before it
C1_Witness ==
    /\ pc = "L237" /\ lt.duration_days # 0 /\ ltan_result # None
    /\ \E k \in FeasibleEvaluated :
          /\ lt.evaluated[k].h < ltan_result[1].new_altitude_km
          /\ lt.evaluated[k].total_dv > ltan_result[1].total_delta_v_kms

\* C2: choose_transfer evaluates the bi-elliptic cost at r_b = m * max(r1, r2)
\* for m = 2, 5, 10, returns the minimum of the Hohmann cost and these costs,
\* and tags it bi-elliptic exactly when the best bi-elliptic cost is strictly
\* below the Hohmann cost, hohmann otherwise.
C2_CheapestTagged ==
    pc = "L206" =>
        /\ Len(ct.costs) = Len(multipliers)
        /\ \A k \in DOMAIN ct.costs :
              /\ ct.costs[k].multiplier = multipliers[k]
              /\ ct.costs[k].r_b = multipliers[k] * Max(ct.r1, ct.r2)
              /\ ct.costs[k].dv = bielliptic_delta_v(ct.r1, ct.r2, ct.costs[k].r_b)
        /\ ct.dv_hohmann = hohmann_delta_v(ct.r1, ct.r2)
        /\ result[1].delta_v_kms = MinOf(BiellipticCosts \cup {ct.dv_hohmann})
        /\ result[1].method \in {"bi-elliptic", "hohmann"}
        /\ result[1].method = "bi-elliptic" <=> MinOf(BiellipticCosts) < ct.dv_hohmann
        /\ result[1].method = "bi-elliptic" => result[1].delta_v_kms = MinOf(BiellipticCosts)
        /\ result[1].method = "hohmann" => result[1].delta_v_kms = ct.dv_hohmann

\* a transfer for which a bi-elliptic candidate beats Hohmann
C2_Witness ==
    /\ pc = "L206" /\ result[1].method = "bi-elliptic"
    /\ result[1].delta_v_kms < ct.dv_hohmann

\* C3: in ltan_drift_adjustment an altitude whose |cos_i| exceeds 1 never
\* becomes the solution and does not end the scan (the next altitude of the
\* grid is evaluated after it), and the function returns None exactly when no
\* altitude of the grid is feasible.
C3_SkipWithoutAbort ==
    pc \in {"ltan_loop", "L237"} =>
        /\ \A k \in DOMAIN lt.evaluated :
              Abs(lt.evaluated[k].cos_i) > TS =>
                /\ ~lt.evaluated[k].feasible
                /\ lt.best_solution # None =>
                      lt.best_solution[1].new_altitude_km # lt.evaluated[k].h
                /\ (pc = "L237" /\ lt.evaluated[k].h + GridStep < GridStop) =>
                      /\ k + 1 \in DOMAIN lt.evaluated
                      /\ lt.evaluated[k + 1].h = lt.evaluated[k].h + GridStep
        /\ pc = "L237" => (ltan_result = None <=> FeasibleEvaluated = {})

\* a scan that skipped altitudes, went on to the end of the grid and still
\* returned a solution
C3_Witness ==
    /\ pc = "L237" /\ ltan_result # None
    /\ \E k \in DOMAIN lt.evaluated :
          /\ ~lt.evaluated[k].feasible
          /\ k + 1 \in DOMAIN lt.evaluated
    /\ lt.evaluated[Len(lt.evaluated)].h = GridStop - GridStep

\* C4: every output of otv_sizing with structural_mass_fraction < 1 and
\* isp_sec > 0 has propellant + structural + payload mass equal to the total
\* mass, and its three fractions sum to 1 within the rounding of the three
\* quotients.
C4_MassBalance ==
    (config # <<>> /\ sz.structural_mass_fraction < 100 /\ sz.isp_sec > 0) =>
        /\ config[1].propellant_mass_kg + config[1].structural_mass_kg
              + config[1].payload_mass_kg = config[1].total_mass_kg
        /\ Abs(config[1].payload_fraction + config[1].propellant_fraction
                 + config[1].structural_fraction - 10^6) <= 3

\* a sized vehicle with propellant and structure
C4_Witness ==
    /\ config # <<>> /\ sz.structural_mass_fraction < 100 /\ sz.isp_sec > 0
    /\ config[1].propellant_mass_kg > 0 /\ config[1].structural_mass_kg > 0

\* C5: the delta-v budget starts at zero, is updated once per stage in the
\* order altitude, inclination, LTAN, no update decreases it, and otv_sizing
\* reads it once, after the three updates.
C5_BudgetNeverDecreases ==
    /\ budget_log # <<>> => budget_log[1].before = 0
    /\ \A k \in DOMAIN budget_log :
          /\ budget_log[k].stage = <<"altitude", "inclination", "ltan">>[k]
          /\ budget_log[k].after >= budget_log[k].before
    /\ Len(budget_log) <= 3
    /\ Len(budget_reads) <= 1
    /\ \A k \in DOMAIN budget_reads : Len(budget_reads[k]) = 3

\* C6 as claimed: the normalized LTAN difference lies in (-180, 180] and is
\* congruent to (target - initial) * 15 modulo 360.
C6_ShortWayUpperClosed ==
    pc # "ltan_drift_adjustment" =>
        /\ lt.delta_ltan_deg > -180 /\ lt.delta_ltan_deg <= 180
        /\ (lt.delta_ltan_deg
               - (lt.target_ltan_hours - lt.initial_ltan_hours) * 15) % 360 = 0

\* C6 amended: the normalized LTAN difference lies in [-180, 180), is
\* congruent to (target - initial) * 15 modulo 360, and a 12-hour shift
\* gives -180.
C6_ShortWayLowerClosed ==
    pc # "ltan_drift_adjustment" =>
        /\ lt.delta_ltan_deg >= -180 /\ lt.delta_ltan_deg < 180
        /\ (lt.delta_ltan_deg
               - (lt.target_ltan_hours - lt.initial_ltan_hours) * 15) % 360 = 0
        /\ Abs(lt.target_ltan_hours - lt.initial_ltan_hours) = 12 =>
              lt.delta_ltan_deg = -180

\* a 12-hour shift forwards, normalized
C6_Witness ==
    /\ pc = "ltan_loop"
    /\ lt.target_ltan_hours - lt.initial_ltan_hours = 12
    /\ lt.delta_ltan_deg = -180

\* C7 as claimed: with r1 = r2 the Hohmann cost and the bi-elliptic cost of
\* each candidate r_b are zero.
C7_DegenerateAllZero ==
    (pc = "L206" /\ ct.r1 = ct.r2) =>
        /\ ct.dv_hohmann = 0
        /\ \A k \in DOMAIN ct.costs : ct.costs[k].dv = 0

\* C7 amended: with r1 = r2 the Hohmann cost is zero, the bi-elliptic cost of
\* each candidate r_b in {2r, 5r, 10r} is strictly positive, and
\* choose_transfer returns the Hohmann plan with zero cost.
C7_DegenerateHohmannZero ==
    (pc = "L206" /\ ct.r1 = ct.r2) =>
        /\ ct.dv_hohmann = 0
        /\ Len(ct.costs) = Len(multipliers)
        /\ \A k \in DOMAIN ct.costs :
              /\ ct.costs[k].r_b = multipliers[k] * ct.r1
              /\ ct.costs[k].dv > 0
        /\ result = <<[method |-> "hohmann", delta_v_kms |-> 0]>>

\* choose_transfer returned for equal altitudes
C7_Witness ==
    /\ pc = "L206" /\ ct.r1 = ct.r2 /\ ct.r1 > R_EARTH
    /\ Len(ct.costs) = Len(multipliers)

\* C8: ltan_drift_adjustment with duration_days = 0 ends in an error before
\* any altitude of the grid is evaluated and never returns.
C8_ZeroDurationRejected ==
    lt.duration_days = 0 =>
        /\ pc \in {"ltan_drift_adjustment", "ZeroDivisionError"}
        /\ lt.evaluated = <<>>
        /\ lt.best_solution = None /\ ltan_result = None

\* the call with a zero duration has raised
C8_Witness ==
    /\ pc = "ZeroDivisionError" /\ lt.duration_days = 0
    /\ lt.target_ltan_hours # lt.initial_ltan_hours

\* C9: hohmann_delta_v(r1, r2) = hohmann_delta_v(r2, r1).
C9_HohmannSymmetric ==
    swapped # <<>> => swapped[1] = ct.dv_hohmann

\* both orders applied to two different radii
C9_Witness ==
    /\ swapped # <<>> /\ ct.r1 < ct.r2 /\ ct.dv_hohmann > 0
    /\ swapped[1] = ct.dv_hohmann

\* C10: when ltan_drift_adjustment returns None the script does not fail on
\* reading the fields of the result.
C10_AbsentResultHandled ==
    ltan_result = None => pc # "TypeError"

====
